---------------------------- MODULE Spec2Model ----------------------------
(***************************************************************************)
(* A model of extradict's TreeDict (src/extradict/binary_tree_dict.py):    *)
(* the AVLNode / PlainNode tree and the TreeDict mapping on top of it,     *)
(* and of its VersionDict (src/extradict/version_dict.py), called by one   *)
(* or by two threads.                                                      *)
(*                                                                         *)
(* A node object is a record; a method that mutates self in place is an    *)
(* operator that returns the object's contents after the call.  The tree   *)
(* never shares a node between two parents (rotations copy, delete drops   *)
(* or keeps a child), so an object's identity is its position in the tree. *)
(***************************************************************************)
EXTENDS Integers, Sequences, FiniteSets, TLC

\* Keys are the integers 1..MaxKey, values the integers 1..MaxVal.
MaxKey == 4
MaxVal == 2
\* At most MaxDeletes calls of __delitem__ are made on one TreeDict.
MaxDeletes == 2
\* node.insert(key, value, replace=False) is called while len(d) < MaxLen.
MaxLen == 3

KEYS == 1..MaxKey
VALUES == 1..MaxVal

\* Keys of another type: -k orders like k against every key but k, and
\* cannot be ordered against k (as the tuple (k, "s") against (k, 0)).
MIXED_KEYS == {-k : k \in KEYS}

\* The keys of the scenario of inserts 10, 20, 5, 40, 30.
SCENARIO == <<10, 20, 5, 40, 30>>
SCENARIO_KEYS == {SCENARIO[i] : i \in 1..Len(SCENARIO)}

ALL_KEYS == KEYS \cup MIXED_KEYS \cup SCENARIO_KEYS

VARIABLES
    root,       \* TreeDict.root: None or the root node
    dict_key,   \* TreeDict.key: the key function given to the constructor
    last,       \* the last call made on the TreeDict: its arguments, len(d) before
                \* it, and what it returned or raised
    written,    \* for every key, the value most recently set for it (0: never set)
    deletes,    \* the number of __delitem__ calls made so far
    calls,      \* the keys set so far, in order, while a scenario is followed
    _version,   \* VersionDict._version
    data,       \* VersionDict.data: for every key in it, its list of VersionedValue
    local,      \* VersionDict.local: for every thread, its _updating attribute
    frame,      \* for every thread, the VersionDict call it is in: the statement
                \* it is at and its local values
    oplog,      \* every VersionDict write call made so far and how it ended
    writes,     \* every VersionedValue put in data so far, in order, with its key
                \* and the call that put it
    last_get,   \* the last call of VersionDict.get and what it returned or raised
    callers     \* the threads that make calls on the VersionDict

tree_vars == <<root, dict_key, last, written, deletes, calls>>

vd_vars == <<_version, data, local, frame, oplog, writes, last_get, callers>>

vars == <<root, dict_key, last, written, deletes, calls,
          _version, data, local, frame, oplog, writes, last_get, callers>>

-----------------------------------------------------------------------------
(* Python values *)

\* Python's None.
None == [tag |-> "None"]

\* _empty = object(): the "no value given" default of insert and __init__.
_empty == 0

\* The EmptyNode singleton: depth 0, len 0, value None, falsy.
EmptyNode == [tag |-> "EmptyNode", depth |-> 0, len |-> 0, value |-> None]

\* bool(x) for None, EmptyNode (EmptyNode.__bool__) and nodes (__len__ >= 1).
truthy(x) == x.tag = "Node"

Max(a, b) == IF a > b THEN a ELSE b

\* abs() of an integer.
Abs(a) == IF a < 0 THEN -a ELSE a

\* The key functions a caller may pass: none, or one that maps two
\* neighbouring raw keys to the same projected key (as str.lower does).
KeyFuncs == {"None", "halve"}

\* a < b and a > b raise no TypeError.
py_comparable(a, b) == Abs(a) # Abs(b) \/ a = b

\* a < b for keys that can be ordered.
py_lt(a, b) == Abs(a) < Abs(b)

\* key_func(key), the call made in _cmp_key.
call_key_func(f, k) == IF f = "halve" THEN (k + 1) \div 2 ELSE k

-----------------------------------------------------------------------------
(* PlainNode *)

\* _update_depth and _update_len, which the code always calls together.
_update(self) ==
    [self EXCEPT !.depth = Max(self.left.depth, self.right.depth) + 1,
                 !.len = 1 + self.left.len + self.right.len]

\* Faulty left and right setters: the child is stored and the cached depth
\* and len are left as they were.  C16 does not survive it.
set_child_no_update(self, side, child) == [self EXCEPT ![side] = child]

\* The left and right property setters, and setattr(self, side, child).
set_child(self, side, child) == _update([self EXCEPT ![side] = child])

\* PlainNode.__init__: the key_func argument is dropped (key_func = None).
PlainNode_init(k, v, key_func) ==
    [tag |-> "Node", key |-> k, value |-> IF v # _empty THEN v ELSE k,
     left |-> EmptyNode, right |-> EmptyNode, key_func |-> "None",
     depth |-> 1, len |-> 1]

\* PlainNode.leaf
leaf(self) == ~(truthy(self.left) \/ truthy(self.right))

\* PlainNode._cmp_key
_cmp_key(self, k) ==
    IF self.key_func # "None" THEN call_key_func(self.key_func, k) ELSE k

\* PlainNode.balanced
balanced(self) == Abs(self.left.depth - self.right.depth) <= 1

\* PlainNode._mute_into
_mute_into(self, other, full) ==
    LET fields == [self EXCEPT !.key = other.key, !.value = other.value,
                               !.key_func = other.key_func]
    IN  IF full
        THEN set_child(set_child(fields, "right", other.right), "left", other.left)
        ELSE fields

-----------------------------------------------------------------------------
(* AVLNode *)

\* A faulty left rotation: the demoted node takes the promoted child's right
\* subtree instead of its left one.  C2 does not survive it.
_avl_rotate_left_wrong_subtree(self) ==
    LET new_parent == self.right
        new_self == set_child(self, "right", new_parent.right)
        parent2 == set_child(new_parent, "left", new_self)
    IN  _mute_into(self, parent2, TRUE)

\* AVLNode._avl_rotate_left
_avl_rotate_left(self) ==
    LET new_parent == self.right
        new_self == set_child(self, "right", new_parent.left)
        parent2 == set_child(new_parent, "left", new_self)
    IN  _mute_into(self, parent2, TRUE)

\* AVLNode._avl_rotate_right
_avl_rotate_right(self) ==
    LET new_parent == self.left
        new_self == set_child(self, "left", new_parent.right)
        parent2 == set_child(new_parent, "right", new_self)
    IN  _mute_into(self, parent2, TRUE)

\* AVLNode.balance
balance(self) ==
    IF balanced(self) THEN self
    ELSE IF self.left.depth > self.right.depth
         THEN _avl_rotate_right(self)
         ELSE _avl_rotate_left(self)

RECURSIVE insert(_, _, _, _)

\* A faulty PlainNode.insert: an equal key never replaces the stored value.
\* C3 does not survive it.
PlainNode_insert_keeps_value(self, k, v, replace) ==
    LET self_key == _cmp_key(self, self.key)
        new_key == _cmp_key(self, k)
    IN  IF new_key = self_key
        THEN [self |-> self, exc |-> "None"]
        ELSE LET target_str == IF py_lt(new_key, self_key) THEN "left" ELSE "right"
                 target == self[target_str]
                 sub == insert(target, k, v, replace)
             IN  IF truthy(target)
                 THEN [self |-> _update([self EXCEPT ![target_str] = sub.self]),
                       exc |-> "None"]
                 ELSE [self |-> _update(set_child(self, target_str,
                                            PlainNode_init(k, v, self.key_func))),
                       exc |-> "None"]

\* A faulty PlainNode.insert: a key that cannot be ordered against self.key
\* is sent to the right instead of raising.  C13 does not survive it.
PlainNode_insert_no_raise(self, k, v, replace) ==
    LET self_key == _cmp_key(self, self.key)
        new_key == _cmp_key(self, k)
    IN  IF new_key = self_key /\ replace
        THEN [self |-> [self EXCEPT !.value = IF v # _empty THEN v ELSE k],
              exc |-> "None"]
        ELSE LET target_str ==
                     IF py_comparable(new_key, self_key) /\ py_lt(new_key, self_key)
                     THEN "left" ELSE "right"
                 target == self[target_str]
                 sub == insert(target, k, v, replace)
             IN  IF truthy(target)
                 THEN [self |-> _update([self EXCEPT ![target_str] = sub.self]),
                       exc |-> sub.exc]
                 ELSE [self |-> _update(set_child(self, target_str,
                                            PlainNode_init(k, v, self.key_func))),
                       exc |-> "None"]

\* PlainNode.insert after target.insert(key, value, replace) came back as sub:
\* the exception goes on up, or the depth and the len are updated.
_insert_returned(self, target_str, sub) ==
    IF sub.exc # "None"
    THEN [self |-> [self EXCEPT ![target_str] = sub.self], exc |-> sub.exc]
    ELSE [self |-> _update([self EXCEPT ![target_str] = sub.self]), exc |-> "None"]

\* PlainNode.insert; the recursive call on a child is a call of AVLNode.insert.
\* self: the object after the call; exc: the exception raised, which leaves
\* the statements after the raising one undone.
PlainNode_insert(self, k, v, replace) ==
    LET self_key == _cmp_key(self, self.key)
        new_key == _cmp_key(self, k)
    IN  IF new_key = self_key /\ replace
        THEN [self |-> [self EXCEPT !.value = IF v # _empty THEN v ELSE k],
              exc |-> "None"]
        ELSE IF ~py_comparable(new_key, self_key)
        THEN [self |-> self, exc |-> "KeyError"]
        ELSE LET target_str == IF py_lt(new_key, self_key) THEN "left" ELSE "right"
                 target == self[target_str]
                 sub == insert(target, k, v, replace)
             IN  IF truthy(target)
                 THEN _insert_returned(self, target_str, sub)
                 ELSE [self |-> _update(set_child(self, target_str,
                                            PlainNode_init(k, v, self.key_func))),
                       exc |-> "None"]

\* AVLNode.insert
insert(self, k, v, replace) ==
    LET done == PlainNode_insert(self, k, v, replace)
    IN  IF done.exc # "None" THEN done
        ELSE [self |-> balance(done.self), exc |-> "None"]

RECURSIVE get(_, _)

\* PlainNode.get and EmptyNode.get: the node found, or exc = "KeyError".
get(self, k) ==
    IF ~truthy(self) THEN [exc |-> "KeyError", node |-> EmptyNode]
    ELSE LET self_key == _cmp_key(self, self.key)
             new_key == _cmp_key(self, k)
         IN  IF self_key = new_key THEN [exc |-> "None", node |-> self]
             ELSE IF ~py_comparable(new_key, self_key)
             THEN [exc |-> "KeyError", node |-> EmptyNode]
             ELSE IF py_lt(new_key, self_key) THEN get(self.left, k)
             ELSE get(self.right, k)

RECURSIVE delete(_, _)

\* PlainNode.delete and EmptyNode.delete.  self: the object after the call
\* (what a holder of the reference sees); ret: the value returned; exc: the
\* exception raised, which leaves every pending setattr undone.
delete(self, k) ==
    IF ~truthy(self) THEN [self |-> self, ret |-> None, exc |-> "KeyError"]
    ELSE
    LET self_key == _cmp_key(self, self.key)
        new_key == _cmp_key(self, k)
        found == self_key = new_key
    IN  IF found /\ leaf(self) THEN [self |-> self, ret |-> EmptyNode, exc |-> "None"]
        ELSE
        LET target_str ==
                IF found
                THEN (IF self.left.depth > self.right.depth THEN "left" ELSE "right")
                ELSE (IF new_key < self_key THEN "left" ELSE "right")
            target == self[target_str]
            muted == IF found THEN _mute_into(self, target, FALSE) ELSE self
            key2 == IF found THEN target.key ELSE k
            sub == delete(target, key2)
        IN  IF sub.exc # "None"
            THEN [self |-> [muted EXCEPT ![target_str] = sub.self],
                  ret |-> None, exc |-> sub.exc]
            ELSE LET done == _update(set_child(muted, target_str, sub.ret))
                 IN  [self |-> done, ret |-> done, exc |-> "None"]

\* The path argument of get_closest: the nodes visited, each with the sides
\* taken from the root to reach it (its identity).
RECURSIVE _get_closest_ancestor_walk(_, _, _)

\* The while loop of _get_closest_ancestor_on_other_side, entered with index.
_get_closest_ancestor_walk(path, side, index) ==
    LET i == index - 1
    IN  IF i < 0 THEN EmptyNode
        ELSE LET side_of_child ==
                     IF Append(path[i + 1].at, side) = path[i + 2].at
                     THEN "same" ELSE "other"
             IN  IF side_of_child = "other" THEN path[i + 1].node
                 ELSE _get_closest_ancestor_walk(path, side, i)

\* A faulty backtrack that looks at the immediate parent only.  C8 does not
\* survive it.
_get_closest_parent_only(path, side) ==
    IF Len(path) < 2 THEN EmptyNode
    ELSE IF Append(path[Len(path) - 1].at, side) = path[Len(path)].at
         THEN EmptyNode
         ELSE path[Len(path) - 1].node

\* PlainNode._get_closest_ancestor_on_other_side
_get_closest_ancestor_on_other_side(path, side) ==
    _get_closest_ancestor_walk(path, side, Len(path) - 1)

RECURSIVE get_closest(_, _, _, _)

\* PlainNode.get_closest; at: the sides taken from the root to reach self.
get_closest(self, k, path0, at) ==
    LET path == Append(path0, [node |-> self, at |-> at])
        self_key == _cmp_key(self, self.key)
        new_key == _cmp_key(self, k)
    IN  IF self_key = new_key THEN <<self, self>>
        ELSE IF new_key > self_key
        THEN IF truthy(self.right)
             THEN get_closest(self.right, k, path, Append(at, "right"))
             ELSE <<self, _get_closest_ancestor_on_other_side(path, "right")>>
        ELSE IF truthy(self.left)
             THEN get_closest(self.left, k, path, Append(at, "left"))
             ELSE <<_get_closest_ancestor_on_other_side(path, "left"), self>>

RECURSIVE __iter__(_)

\* PlainNode.__iter__ and EmptyNode.__iter__: the nodes yielded, in order.
__iter__(self) ==
    IF ~truthy(self) THEN <<>>
    ELSE __iter__(self.left) \o <<self>> \o __iter__(self.right)

-----------------------------------------------------------------------------
(* TreeDict *)

\* TreeDict.__setitem__: the root after the call, and the exception raised.
__setitem__(r, k, v) ==
    IF r = None THEN [root |-> PlainNode_init(k, v, dict_key), exc |-> "None"]
    ELSE LET res == insert(r, k, v, TRUE)
         IN  [root |-> res.self, exc |-> res.exc]

\* TreeDict.__getitem__ for a key that is not a slice.
__getitem__(r, k) ==
    IF ~truthy(r) THEN [exc |-> "KeyError", value |-> 0]
    ELSE LET found == get(r, k)
         IN  IF found.exc # "None" THEN [exc |-> found.exc, value |-> 0]
             ELSE [exc |-> "None", value |-> found.node.value]

\* TreeDict.__delitem__: the root after the call, and the exception raised.
__delitem__(r, k) ==
    IF ~truthy(r) THEN [root |-> r, exc |-> "KeyError"]
    ELSE IF r.len = 1 THEN [root |-> None, exc |-> "None"]
    ELSE LET res == delete(r, k)
         IN  [root |-> res.self, exc |-> res.exc]

\* The pair the body of TreeDict.get_closest computes into ret_values.
ret_values(r, k) ==
    LET parents == get_closest(r, k, <<>>, <<>>)
        parent1 == parents[1]
        parent2 == parents[2]
    IN  [tag |-> "tuple",
         fst |-> IF truthy(parent1) THEN <<parent1.key>> ELSE <<>>,
         snd |-> IF truthy(parent2) THEN <<parent2.key>> ELSE <<>>]

\* TreeDict.get_closest: what the call returns.  The non-empty branch ends
\* without a return statement, so the call returns None.
TreeDict_get_closest(r, k) ==
    IF ~truthy(r) THEN [tag |-> "tuple", fst |-> <<>>, snd |-> <<>>]
    ELSE LET computed == ret_values(r, k) IN None

\* TreeDict.__iter__: the keys yielded, in order.
TreeDict_iter(r) ==
    IF truthy(r) THEN [i \in 1..Len(__iter__(r)) |-> __iter__(r)[i].key] ELSE <<>>

\* TreeDict.__len__
__len__(r) == IF truthy(r) THEN r.len ELSE 0

-----------------------------------------------------------------------------
(* VersionDict *)

\* VersionDict keys are the integers 1..MaxVDKey, its values are VALUES.
MaxVDKey == 2
\* At most MaxCalls write calls (set, delete, update) are made on one
\* VersionDict, and at most MaxThreadCalls when two threads make them.
MaxCalls == 3
MaxThreadCalls == 2

VD_KEYS == 1..MaxVDKey

\* The constructing thread and one more.
THREADS == {"main", "other"}

\* _Deleted = object(): the value of a deletion and the "no default" of get.
_Deleted == 0

\* VersionedValue = namedtuple("VersionedValue", "version value")
VersionedValue(version, value) == [version |-> version, value |-> value]

\* The `initial` mappings a VersionDict is constructed from.
INITIALS == {[k \in S |-> MaxVal] : S \in {{}, {MaxVDKey}}}

\* The `other` mappings update() is called with, as their items in
\* iteration order: {}, {k: v} and {k: v, k + 1: v}.
OTHERS ==
    {<<>>} \cup
    {<<[key |-> k, value |-> v]>> : k \in VD_KEYS, v \in VALUES} \cup
    {<<[key |-> k, value |-> v], [key |-> k + 1, value |-> v]>> :
        k \in VD_KEYS \ {MaxVDKey}, v \in VALUES}

\* The `default` arguments of get: none given, or a value.
DEFAULTS == {_Deleted} \cup VALUES

\* VersionDict.__init__: _version, data and local after construction on "main".
VersionDict_init(initial) ==
    [_version |-> 0,
     data |-> [k \in DOMAIN initial |-> <<VersionedValue(0, initial[k])>>],
     local |-> [t \in THREADS |-> IF t = "main" THEN "False" ELSE "unset"]]

\* A walk that stops at the last element whatever its version.
_get_walk_ignores_version(values, i, version) == IF i > Len(values) THEN 0 ELSE i

RECURSIVE _get_walk(_, _, _)

\* i = -1; while values[i].version > version: i -= 1
\* The i the loop ends with, negated (1 is the last element); 0 when
\* values[i] raises IndexError.
_get_walk(values, i, version) ==
    IF i > Len(values) THEN 0
    ELSE IF values[Len(values) + 1 - i].version > version
         THEN _get_walk(values, i + 1, version)
         ELSE i

\* VersionDict.get(item, default, version) with a version given.
VersionDict_get(d, item, default, version) ==
    LET i == IF item \in DOMAIN d THEN _get_walk(d[item], 1, version) ELSE 0
        miss == IF default # _Deleted
                THEN [ret |-> default, exc |-> "None"]
                ELSE [ret |-> _Deleted, exc |-> "KeyError"]
    IN  IF i = 0 THEN miss
        ELSE IF d[item][Len(d[item]) + 1 - i].value = _Deleted THEN miss
        ELSE [ret |-> d[item][Len(d[item]) + 1 - i].value, exc |-> "None"]

\* VersionDict.__getitem__
VersionDict_getitem(d, item) ==
    IF item \notin DOMAIN d THEN [ret |-> _Deleted, exc |-> "KeyError"]
    ELSE IF d[item] = <<>> THEN [ret |-> _Deleted, exc |-> "IndexError"]
    ELSE IF d[item][Len(d[item])].value = _Deleted
         THEN [ret |-> _Deleted, exc |-> "KeyError"]
         ELSE [ret |-> d[item][Len(d[item])].value, exc |-> "None"]

\* item is a live key of d: d[item] returns a value.
live(d, item) == VersionDict_getitem(d, item).exc = "None"

\* A thread that is in no VersionDict call.
Idle == [pc |-> "idle", op |-> "none", item |-> 0, value |-> 0, other |-> <<>>,
         tmp |-> 0, call |-> 0]

\* No call of get was made yet.
NoGet == [thread |-> "none", item |-> 0, version |-> 0, ret |-> _Deleted,
          exc |-> "None"]

\* The VersionDict variables after VersionDict(initial) on thread "main",
\* with the threads of `threads` to make calls on it.
vd_constructed(initial, threads) ==
    /\ callers = threads
    /\ _version = VersionDict_init(initial)._version
    /\ data = VersionDict_init(initial).data
    /\ local = VersionDict_init(initial).local
    /\ frame = [t \in THREADS |-> Idle]
    /\ oplog = <<>>
    /\ writes = [i \in 1..Cardinality(DOMAIN initial) |->
                    [key |-> MaxVDKey, version |-> 0, value |-> initial[MaxVDKey],
                     call |-> 0]]
    /\ last_get = NoGet

Init ==
    /\ root = None
    /\ dict_key \in KeyFuncs
    /\ last = [op |-> "init", key |-> 0, value |-> 0, pre_len |-> 0,
               exc |-> "None", ret |-> None]
    /\ written = [k \in ALL_KEYS |-> 0]
    /\ deletes = 0
    /\ calls = <<>>
    /\ vd_constructed(<<>>, {"main"})

\* d[k] = v, but for the record of the scenario.
do_setitem(k, v) ==
    \E res \in {__setitem__(root, k, v)} :
        /\ root' = res.root
        /\ last' = [op |-> "set", key |-> k, value |-> v, pre_len |-> __len__(root),
                    exc |-> res.exc, ret |-> None]
        /\ written' = IF res.exc = "None" THEN [written EXCEPT ![k] = v] ELSE written
        /\ UNCHANGED <<dict_key, deletes>>
        /\ UNCHANGED vd_vars

\* del d[k], but for the record of the scenario.
do_delitem(k) ==
    \E res \in {__delitem__(root, k)} :
        /\ deletes < MaxDeletes
        /\ root' = res.root
        /\ last' = [op |-> "del", key |-> k, value |-> 0, pre_len |-> __len__(root),
                    exc |-> res.exc, ret |-> None]
        /\ deletes' = deletes + 1
        /\ UNCHANGED <<dict_key, written>>
        /\ UNCHANGED vd_vars

\* d[k] = v
SetItem(k, v) == do_setitem(k, v) /\ UNCHANGED calls

\* del d[k]
DelItem(k) == do_delitem(k) /\ UNCHANGED calls

\* d.get_closest(k)
GetClosest(k) ==
    /\ last' = [op |-> "get_closest", key |-> k, value |-> 0,
                pre_len |-> __len__(root), exc |-> "None",
                ret |-> TreeDict_get_closest(root, k)]
    /\ UNCHANGED <<root, dict_key, written, deletes, calls>>
    /\ UNCHANGED vd_vars

\* d.root.insert(k, v, replace=False) on a non-empty TreeDict.
InsertKeep(k, v) ==
    /\ truthy(root)
    /\ __len__(root) < MaxLen
    /\ \E res \in {insert(root, k, v, FALSE)} :
        /\ root' = res.self
        /\ last' = [op |-> "insert", key |-> k, value |-> v, pre_len |-> __len__(root),
                    exc |-> res.exc, ret |-> None]
        /\ written' = IF written[k] = 0 THEN [written EXCEPT ![k] = v] ELSE written
        /\ UNCHANGED <<dict_key, deletes, calls>>
        /\ UNCHANGED vd_vars

\* d[k] = k for a key of the scenario not set yet, recorded in calls.
ScenarioSet(k) ==
    /\ deletes = 0
    /\ \A i \in 1..Len(calls) : calls[i] # k
    /\ do_setitem(k, k)
    /\ calls' = Append(calls, k)

\* del d[k] once every key of the scenario is set.
ScenarioDel(k) ==
    /\ Len(calls) = Len(SCENARIO)
    /\ deletes = 0
    /\ do_delitem(k)
    /\ UNCHANGED calls

\* d[k] = v and d.get_closest(k) only: the TreeDicts no delete has touched.
NextSets ==
    \/ \E k \in KEYS, v \in VALUES : SetItem(k, v)
    \/ \E k \in KEYS : GetClosest(k)

Next ==
    \/ \E k \in KEYS, v \in VALUES : SetItem(k, v)
    \/ \E k \in KEYS : DelItem(k)
    \/ \E k \in KEYS : GetClosest(k)

\* Sets, and inserts that must keep the value of a key already stored.
NextInsert ==
    \/ \E k \in KEYS, v \in VALUES : SetItem(k, v)
    \/ \E k \in KEYS, v \in VALUES : InsertKeep(k, v)

\* Sets of keys of both types.
NextMixed == \E k \in KEYS \cup MIXED_KEYS, v \in VALUES : SetItem(k, v)

\* The keys of the scenario set in any order, then one of them deleted.
NextScenario ==
    \/ \E k \in SCENARIO_KEYS : ScenarioSet(k)
    \/ \E k \in SCENARIO_KEYS : ScenarioDel(k)

SpecSets == Init /\ [][NextSets]_vars

Spec == Init /\ [][Next]_vars

SpecInsert == Init /\ [][NextInsert]_vars

SpecMixed == Init /\ [][NextMixed]_vars

SpecScenario == Init /\ [][NextScenario]_vars

-----------------------------------------------------------------------------
(* VersionDict calls, a statement at a time *)

\* The record of a write call as it starts on thread t.
call_record(op, t, item, value, other) ==
    [op |-> op, thread |-> t, item |-> item, value |-> value, other |-> other,
     v0 |-> _version, live0 |-> live(data, item), local0 |-> local[t],
     exc |-> "None", done |-> FALSE, v1 |-> _version]

\* Thread t makes calls, is in none, and one more call may be made.
may_call(t) ==
    /\ t \in callers
    /\ frame[t].pc = "idle"
    /\ Len(oplog) < (IF callers = {"main"} THEN MaxCalls ELSE MaxThreadCalls)

\* Thread t enters a call at statement pc.
enter(t, pc, op, item, value, other) ==
    /\ frame' = [frame EXCEPT ![t] = [pc |-> pc, op |-> op, item |-> item,
                                      value |-> value, other |-> other,
                                      tmp |-> _version, call |-> Len(oplog) + 1]]
    /\ oplog' = Append(oplog, call_record(op, t, item, value, other))

\* The call of thread t returns, or raises exc, with d.version = version.
leave(t, exc, version) ==
    /\ frame' = [frame EXCEPT ![t] = Idle]
    /\ oplog' = [oplog EXCEPT ![frame[t].call] =
                    [@ EXCEPT !.exc = exc, !.done = TRUE, !.v1 = version]]

\* Thread t goes on to statement pc.
goto(t, pc) == frame' = [frame EXCEPT ![t].pc = pc]

\* The statement after `if not self.local._updating:` on thread t; the
\* attribute is missing on a thread that never assigned it.
after_89_never_increments(t) ==
    IF local[t] = "unset" THEN "AttributeError" ELSE "set_91"

after_89(t) ==
    IF local[t] = "unset" THEN "AttributeError"
    ELSE IF local[t] = "False" THEN "set_90_load" ELSE "set_91"

\* d[item] = value: `with threading.Lock():` locks a lock made for this call
\* alone, which no other call waits for; then line 89.
setitem_89(t, item, value) ==
    /\ may_call(t)
    /\ IF after_89(t) = "AttributeError"
       THEN /\ oplog' = Append(oplog, [call_record("set", t, item, value, <<>>)
                                          EXCEPT !.exc = "AttributeError",
                                                 !.done = TRUE])
            /\ UNCHANGED frame
       ELSE enter(t, after_89(t), "set", item, value, <<>>)
    /\ UNCHANGED <<_version, data, local, writes, last_get>>
    /\ UNCHANGED <<callers, tree_vars>>

\* self._version += 1 (line 90): the attribute is read ...
setitem_90_load(t) ==
    /\ frame[t].pc = "set_90_load"
    /\ frame' = [frame EXCEPT ![t].pc = "set_90_store", ![t].tmp = _version]
    /\ UNCHANGED <<_version, data, local, oplog, writes, last_get>>
    /\ UNCHANGED <<callers, tree_vars>>

\* ... and assigned.
setitem_90_store(t) ==
    /\ frame[t].pc = "set_90_store"
    /\ _version' = frame[t].tmp + 1
    /\ goto(t, "set_91")
    /\ UNCHANGED <<data, local, oplog, writes, last_get>>
    /\ UNCHANGED <<callers, tree_vars>>

\* if item not in self.data:
setitem_91(t) ==
    /\ frame[t].pc = "set_91"
    /\ goto(t, IF frame[t].item \notin DOMAIN data THEN "set_92" ELSE "set_93_load")
    /\ UNCHANGED <<_version, data, local, oplog, writes, last_get>>
    /\ UNCHANGED <<callers, tree_vars>>

\* self.data[item] = []
setitem_92(t) ==
    /\ frame[t].pc = "set_92"
    /\ data' = [k \in DOMAIN data \cup {frame[t].item} |->
                   IF k = frame[t].item THEN <<>> ELSE data[k]]
    /\ goto(t, "set_93_load")
    /\ UNCHANGED <<_version, local, oplog, writes, last_get>>
    /\ UNCHANGED <<callers, tree_vars>>

\* self.data[item].append(VersionedValue(self._version, value)): the
\* VersionedValue is built ...
setitem_93_load(t) ==
    /\ frame[t].pc = "set_93_load"
    /\ frame' = [frame EXCEPT ![t].pc = "set_93_append", ![t].tmp = _version]
    /\ UNCHANGED <<_version, data, local, oplog, writes, last_get>>
    /\ UNCHANGED <<callers, tree_vars>>

\* ... and appended; __setitem__ returns, into update's loop when update
\* called it.
setitem_93_append(t) ==
    /\ frame[t].pc = "set_93_append"
    /\ data' = [data EXCEPT ![frame[t].item] =
                   Append(@, VersionedValue(frame[t].tmp, frame[t].value))]
    /\ writes' = Append(writes, [key |-> frame[t].item, version |-> frame[t].tmp,
                                 value |-> frame[t].value, call |-> frame[t].call])
    /\ IF frame[t].op = "update"
       THEN goto(t, "update_51") /\ UNCHANGED oplog
       ELSE leave(t, "None", _version)
    /\ UNCHANGED <<_version, local, last_get>>
    /\ UNCHANGED <<callers, tree_vars>>

\* del d[item]: self._version += 1 (line 96), the attribute is read ...
delitem_96_load(t, item) ==
    /\ may_call(t)
    /\ enter(t, "del_96_store", "del", item, _Deleted, <<>>)
    /\ UNCHANGED <<_version, data, local, writes, last_get>>
    /\ UNCHANGED <<callers, tree_vars>>

\* ... and assigned.
delitem_96_store(t) ==
    /\ frame[t].pc = "del_96_store"
    /\ _version' = frame[t].tmp + 1
    /\ goto(t, "del_97_load")
    /\ UNCHANGED <<data, local, oplog, writes, last_get>>
    /\ UNCHANGED <<callers, tree_vars>>

\* self.data[item].append(VersionedValue(self._version, _Deleted)):
\* self.data[item] raises KeyError, or the VersionedValue is built ...
delitem_97_load(t) ==
    /\ frame[t].pc = "del_97_load"
    /\ IF frame[t].item \notin DOMAIN data
       THEN leave(t, "KeyError", _version)
       ELSE /\ frame' = [frame EXCEPT ![t].pc = "del_97_append", ![t].tmp = _version]
            /\ UNCHANGED oplog
    /\ UNCHANGED <<_version, data, local, writes, last_get>>
    /\ UNCHANGED <<callers, tree_vars>>

\* ... and appended.
delitem_97_append(t) ==
    /\ frame[t].pc = "del_97_append"
    /\ data' = [data EXCEPT ![frame[t].item] =
                   Append(@, VersionedValue(frame[t].tmp, _Deleted))]
    /\ writes' = Append(writes, [key |-> frame[t].item, version |-> frame[t].tmp,
                                 value |-> _Deleted, call |-> frame[t].call])
    /\ leave(t, "None", _version)
    /\ UNCHANGED <<_version, local, last_get>>
    /\ UNCHANGED <<callers, tree_vars>>

\* d.update(other): `with threading.Lock():` as in __setitem__; then
\* self._version += 1 (line 48), the attribute is read ...
update_48_load(t, other) ==
    /\ may_call(t)
    /\ enter(t, "update_48_store", "update", 0, 0, other)
    /\ UNCHANGED <<_version, data, local, writes, last_get>>
    /\ UNCHANGED <<callers, tree_vars>>

\* ... and assigned.
update_48_store(t) ==
    /\ frame[t].pc = "update_48_store"
    /\ _version' = frame[t].tmp + 1
    /\ goto(t, "update_50")
    /\ UNCHANGED <<data, local, oplog, writes, last_get>>
    /\ UNCHANGED <<callers, tree_vars>>

\* self.local._updating = True
update_50_leaves_flag(t) ==
    /\ frame[t].pc = "update_50"
    /\ goto(t, "update_51")
    /\ UNCHANGED <<_version, data, local, oplog, writes, last_get>>
    /\ UNCHANGED <<callers, tree_vars>>

update_50(t) ==
    /\ frame[t].pc = "update_50"
    /\ local' = [local EXCEPT ![t] = "True"]
    /\ goto(t, "update_51")
    /\ UNCHANGED <<_version, data, oplog, writes, last_get>>
    /\ UNCHANGED <<callers, tree_vars>>

\* super().update(other): MutableMapping.update's `for key in other:
\* self[key] = other[key]` calls __setitem__ for the next key, up to its
\* line 89; after the last key the finally clause is next.
update_51(t) ==
    /\ frame[t].pc = "update_51"
    /\ IF frame[t].other = <<>>
       THEN goto(t, "update_53")
       ELSE frame' = [frame EXCEPT ![t].pc = after_89(t),
                                   ![t].item = Head(frame[t].other).key,
                                   ![t].value = Head(frame[t].other).value,
                                   ![t].other = Tail(frame[t].other)]
    /\ UNCHANGED <<_version, data, local, oplog, writes, last_get>>
    /\ UNCHANGED <<callers, tree_vars>>

\* finally: self.local._updating = False; update returns.
update_53(t) ==
    /\ frame[t].pc = "update_53"
    /\ local' = [local EXCEPT ![t] = "False"]
    /\ leave(t, "None", _version)
    /\ UNCHANGED <<_version, data, writes, last_get>>
    /\ UNCHANGED <<callers, tree_vars>>

\* d.get(item, version=d.version) on a thread that is in no other call.
get_64(t, item) ==
    /\ t \in callers
    /\ frame[t].pc = "idle"
    /\ last_get' = [thread |-> t, item |-> item, version |-> _version,
                    ret |-> VersionDict_get(data, item, _Deleted, _version).ret,
                    exc |-> VersionDict_get(data, item, _Deleted, _version).exc]
    /\ UNCHANGED <<_version, data, local, frame, oplog, writes>>
    /\ UNCHANGED <<callers, tree_vars>>

\* One statement of thread t.
ThreadStep(t) ==
    \/ \E item \in VD_KEYS, value \in VALUES : setitem_89(t, item, value)
    \/ setitem_90_load(t)
    \/ setitem_90_store(t)
    \/ setitem_91(t)
    \/ setitem_92(t)
    \/ setitem_93_load(t)
    \/ setitem_93_append(t)
    \/ \E item \in VD_KEYS : delitem_96_load(t, item)
    \/ delitem_96_store(t)
    \/ delitem_97_load(t)
    \/ delitem_97_append(t)
    \/ \E other \in OTHERS : update_48_load(t, other)
    \/ update_48_store(t)
    \/ update_50(t)
    \/ update_51(t)
    \/ update_53(t)
    \/ \E item \in VD_KEYS : get_64(t, item)

\* The TreeDict is left alone.
tree_untouched ==
    /\ root = None
    /\ dict_key = "None"
    /\ last = [op |-> "init", key |-> 0, value |-> 0, pre_len |-> 0,
               exc |-> "None", ret |-> None]
    /\ written = [k \in ALL_KEYS |-> 0]
    /\ deletes = 0
    /\ calls = <<>>

\* A VersionDict constructed on thread "main", which makes every call.
InitVersion ==
    /\ tree_untouched
    /\ \E initial \in INITIALS : vd_constructed(initial, {"main"})

\* A VersionDict constructed on thread "main" and called by two threads.
InitThreads ==
    /\ tree_untouched
    /\ \E initial \in INITIALS : vd_constructed(initial, THREADS)

\* A thread takes its next statement; threads take turns at any statement.
NextVersion == \E t \in THREADS : ThreadStep(t)

SpecVersion == InitVersion /\ [][NextVersion]_vars

SpecThreads == InitThreads /\ [][NextVersion]_vars

-----------------------------------------------------------------------------
(* What the properties below speak of *)

RECURSIVE Nodes(_)

\* Every node of the tree t (None and EmptyNode have none).
Nodes(t) == IF ~truthy(t) THEN {} ELSE {t} \cup Nodes(t.left) \cup Nodes(t.right)

\* The keys stored in the tree t.
KeysOf(t) == {n.key : n \in Nodes(t)}

\* The node of t that holds key k.
NodeWithKey(t, k) == CHOOSE n \in Nodes(t) : n.key = k

\* |left.depth - right.depth| <= 1 at every node of t.
AVLBalanced(t) == \A n \in Nodes(t) : Abs(n.left.depth - n.right.depth) <= 1

\* Left subtree keys below, right subtree keys above, at every node of t.
BSTOrdered(t) ==
    \A n \in Nodes(t) :
        /\ \A k \in KeysOf(n.left) : k < n.key
        /\ \A k \in KeysOf(n.right) : k > n.key

StrictlyIncreasing(seq) == \A i \in 1..(Len(seq) - 1) : seq[i] < seq[i + 1]

\* The keys set so far.
WrittenKeys == {k \in KEYS : written[k] # 0}

\* The greatest element of a non-empty set of integers, and the least.
SetMax(S) == CHOOSE x \in S : \A y \in S : y <= x
SetMin(S) == CHOOSE x \in S : \A y \in S : y >= x

\* The node of t with the greatest key below k, and with the least key above
\* k; EmptyNode when there is none.
Predecessor(t, k) ==
    LET below == {x \in KeysOf(t) : x < k}
    IN  IF below = {} THEN EmptyNode ELSE NodeWithKey(t, SetMax(below))
Successor(t, k) ==
    LET above == {x \in KeysOf(t) : x > k}
    IN  IF above = {} THEN EmptyNode ELSE NodeWithKey(t, SetMin(above))

\* A step that is a call of __delitem__ (the only action that counts deletes).
DelStep == deletes' = deletes + 1

\* The calls that have returned or raised.
DoneCalls == {c \in 1..Len(oplog) : oplog[c].done}

\* What call c appended to data, in order.
WritesOf(c) == SelectSeq(writes, LAMBDA w : w.call = c)

\* The one append a set or delete is to make: value under version, for call c.
OneWrite(c, item, version, value) ==
    <<[key |-> item, version |-> version, value |-> value, call |-> c]>>

\* Everything appended to the list of key k, in order, as VersionedValues.
HistoryOf(k) ==
    LET ws == SelectSeq(writes, LAMBDA w : w.key = k)
    IN  [i \in 1..Len(ws) |-> VersionedValue(ws[i].version, ws[i].value)]

\* The place in writes of the latest write to k with a version <= v (0: none).
LatestWrite(k, v) ==
    LET S == {i \in 1..Len(writes) : writes[i].key = k /\ writes[i].version <= v}
    IN  IF S = {} THEN 0 ELSE SetMax(S)

\* What get(k, default, version=v) is to return or raise.
ExpectedGet(k, default, v) ==
    LET i == LatestWrite(k, v)
    IN  IF i # 0 /\ writes[i].value # _Deleted
        THEN [ret |-> writes[i].value, exc |-> "None"]
        ELSE IF default # _Deleted
             THEN [ret |-> default, exc |-> "None"]
             ELSE [ret |-> _Deleted, exc |-> "KeyError"]

-----------------------------------------------------------------------------
(* C1..C10 *)

\* C1: after every insert of a sequence of inserts into an empty TreeDict,
\* every node has |left.depth - right.depth| <= 1.  (SpecSets)
C1_BalancedAfterInserts == AVLBalanced(root)

\* C2: after every insert of a sequence of inserts, rotations included, every
\* node's left subtree holds only smaller keys and its right subtree only
\* greater keys.  (SpecSets)
C2_BSTOrderAfterInserts == BSTOrdered(root)

\* C2 witness: three or more keys under a root with an empty side, a shape
\* that only a rotation at the root leaves behind.
C2_Witness ==
    /\ last.op = "set"
    /\ truthy(root)
    /\ root.len >= 3
    /\ ~truthy(root.left)
    /\ truthy(root.right.left)

\* C3: under d[k] = v operations only, a TreeDict built without a key
\* function is the map of the values set: len(d) is the number of distinct
\* keys set, every key set is retrievable, and d[k] is the value last set.
\* (SpecSets)
C3_SetsActAsMap ==
    dict_key = "None" =>
        /\ __len__(root) = Cardinality(WrittenKeys)
        /\ \A k \in WrittenKeys :
               __getitem__(root, k) = [exc |-> "None", value |-> written[k]]

\* C3 witness: with every key set, a key two levels below the root was just
\* set again (len(d) was already MaxKey before the call).
C3_Witness ==
    /\ dict_key = "None"
    /\ last.op = "set"
    /\ last.pre_len = MaxKey
    /\ __len__(root) = MaxKey
    /\ last.key \notin {root.key, root.left.key, root.right.key}
    /\ \E k \in KEYS : written[k] # last.value

\* C4: on a TreeDict reached by inserts, del d[k] of a present key k makes
\* d[k] raise KeyError, keeps every other key retrievable with its value, and
\* lowers len(d) by exactly 1.
C4_DeleteRemovesExactlyOneKey ==
    [][(DelStep /\ deletes = 0 /\ last'.key \in WrittenKeys)
         => /\ last'.exc = "None"
            /\ __getitem__(root', last'.key).exc = "KeyError"
            /\ \A k \in WrittenKeys \ {last'.key} :
                   __getitem__(root', k) = __getitem__(root, k)
            /\ __len__(root') = __len__(root) - 1]_vars

\* C5: whenever set and delete operations leave a TreeDict non-empty,
\* iterating it yields strictly increasing keys, as many as len(d).
C5_AscendingIteration ==
    truthy(root) =>
        /\ StrictlyIncreasing(TreeDict_iter(root))
        /\ Len(TreeDict_iter(root)) = __len__(root)

\* C6: del d[k] of a present key on a tree that satisfies the AVL balance
\* invariant leaves a tree that satisfies it.
C6_BalancedAfterDelete ==
    [][(/\ DelStep
        /\ AVLBalanced(root)
        /\ last'.key \in KeysOf(root)
        /\ __getitem__(root, last'.key).exc = "None")
         => AVLBalanced(root')]_vars

\* C7: del d[k] of a key that is not stored raises KeyError and leaves the
\* TreeDict as it was, whatever its size.
C7_DeleteAbsentKey ==
    [][(DelStep /\ last'.key \notin KeysOf(root))
         => (last'.exc = "KeyError" /\ root' = root)]_vars

\* C8: on a tree built by inserts, root.get_closest(k) is (node, node) for
\* the node that holds k, and for an absent k the pair of the node with the
\* greatest key below k and the node with the least key above k, EmptyNode
\* standing for a missing one.  (SpecSets)
C8_NodeGetClosest ==
    truthy(root) =>
        \A k \in KEYS :
            get_closest(root, k, <<>>, <<>>) =
                IF k \in KeysOf(root)
                THEN <<NodeWithKey(root, k), NodeWithKey(root, k)>>
                ELSE <<Predecessor(root, k), Successor(root, k)>>

\* C8 witness: key 2 is absent, the search for it ends two levels below the
\* root, and its lower bound is the root itself.
C8_Witness ==
    /\ truthy(root)
    /\ root.key = 1
    /\ truthy(root.right)
    /\ truthy(root.right.left)
    /\ root.right.left.key = 3
    /\ 2 \notin KeysOf(root)
    /\ get_closest(root, 2, <<>>, <<>>) = <<root, root.right.left>>

\* C9: TreeDict.get_closest(key) returns (None, None) on an empty TreeDict
\* and otherwise the keys of the two nodes root.get_closest finds, None for
\* an absent bound.
C9_TreeDictGetClosest ==
    last.op = "get_closest" =>
        last.ret = IF ~truthy(root)
                   THEN [tag |-> "tuple", fst |-> <<>>, snd |-> <<>>]
                   ELSE ret_values(root, last.key)

\* C10: in a TreeDict built with key=f, raw keys with equal f(key) are one
\* entry: after d[a] = v every b with f(b) = f(a) reads v, len counts the
\* distinct projected keys, and iteration is ordered by f(key).
C10_KeyProjection ==
    (dict_key # "None" /\ deletes = 0 /\ last.op = "set") =>
        /\ \A b \in KEYS :
               call_key_func(dict_key, b) = call_key_func(dict_key, last.key)
                   => __getitem__(root, b) = [exc |-> "None", value |-> last.value]
        /\ __len__(root) =
               Cardinality({call_key_func(dict_key, k) : k \in WrittenKeys})
        /\ StrictlyIncreasing([i \in 1..Len(TreeDict_iter(root)) |->
                                  call_key_func(dict_key, TreeDict_iter(root)[i])])

-----------------------------------------------------------------------------
(* C11..C13, C16 *)

\* C11: insert(key, value, replace=False) of a key already in the tree is a
\* no-op: value, size, shape and key set stay as they were.  (SpecInsert)
C11_InsertKeepIsNoOp ==
    [][(last'.op = "insert" /\ last'.key \in KeysOf(root)) => root' = root]_vars

\* C12: inserting 10, 20, 5, 40, 30 in that order gives the iteration
\* 5, 10, 20, 30, 40 and a root depth of 3; deleting 20 then gives the
\* iteration 5, 10, 30, 40 on a tree that is ordered and balanced.
\* (SpecScenario)
C12_Scenario ==
    calls = SCENARIO =>
        /\ deletes = 0 =>
               /\ TreeDict_iter(root) = <<5, 10, 20, 30, 40>>
               /\ root.depth = 3
        /\ (deletes = 1 /\ last.op = "del" /\ last.key = 20) =>
               /\ TreeDict_iter(root) = <<5, 10, 30, 40>>
               /\ BSTOrdered(root)
               /\ AVLBalanced(root)

\* C13: d[k] = v with a key that cannot be ordered against a stored key
\* raises and leaves the whole tree, cached depths and lens included, as it
\* was.  (SpecMixed)
C13_IncomparableKeyRaises ==
    [][(/\ last'.op = "set"
        /\ \E n \in Nodes(root) : ~py_comparable(last'.key, n.key))
         => (last'.exc = "KeyError" /\ root' = root)]_vars

\* C13 witness: a set has raised on meeting, two levels below the root, a
\* key it cannot be ordered against.
C13_Witness ==
    /\ last.op = "set"
    /\ last.exc = "KeyError"
    /\ truthy(root)
    /\ \E n \in Nodes(root) \ {root, root.left, root.right} :
           ~py_comparable(last.key, n.key)

\* C16: after every set and every delete, each node's cached depth is
\* 1 + max(left.depth, right.depth) and its cached len is
\* 1 + len(left) + len(right).
C16_CachedMetadata ==
    \A n \in Nodes(root) :
        /\ n.depth = 1 + Max(n.left.depth, n.right.depth)
        /\ n.len = 1 + n.left.len + n.right.len

\* C16 witness: a delete has copied a child's key up into the node that held
\* the deleted key (only that leaves a tree out of order), in a tree of four.
C16_Witness ==
    /\ last.op = "del"
    /\ last.exc = "None"
    /\ last.pre_len = 4
    /\ truthy(root)
    /\ root.len = 3
    /\ ~BSTOrdered(root)


-----------------------------------------------------------------------------
(* C14, C15, C17, C18, C19: VersionDict *)

\* C14: with one thread, every d[k] = v and every del d[k] of a live key
\* raises d.version by exactly 1 and records the write under the new
\* version; one update(other) raises d.version by exactly 1 in total and
\* records every key of other under that one version; every list of data
\* holds exactly what was recorded for its key; d.version never decreases.
C14_VersionNumbering ==
    /\ [](/\ \A c \in DoneCalls :
              /\ oplog[c].op = "set" =>
                    /\ oplog[c].v1 = oplog[c].v0 + 1
                    /\ WritesOf(c) = OneWrite(c, oplog[c].item, oplog[c].v0 + 1,
                                              oplog[c].value)
              /\ (oplog[c].op = "del" /\ oplog[c].live0) =>
                    /\ oplog[c].v1 = oplog[c].v0 + 1
                    /\ WritesOf(c) = OneWrite(c, oplog[c].item, oplog[c].v0 + 1,
                                              _Deleted)
              /\ oplog[c].op = "update" =>
                    /\ oplog[c].v1 = oplog[c].v0 + 1
                    /\ WritesOf(c) =
                          [i \in 1..Len(oplog[c].other) |->
                              [key |-> oplog[c].other[i].key,
                               version |-> oplog[c].v0 + 1,
                               value |-> oplog[c].other[i].value, call |-> c]]
         /\ \A k \in VD_KEYS :
              IF k \in DOMAIN data THEN data[k] = HistoryOf(k) ELSE HistoryOf(k) = <<>>)
    /\ [][_version' >= _version]_vars

\* A set, a delete of a live key and an update of two keys have returned.
C14_Witness ==
    \E a \in DoneCalls, b \in DoneCalls, c \in DoneCalls :
        /\ oplog[a].op = "set"
        /\ oplog[b].op = "del" /\ oplog[b].live0
        /\ oplog[c].op = "update" /\ Len(oplog[c].other) = MaxVDKey

\* C15: with one thread, get(k, default, version=v) returns the value of
\* the latest write to k with a version <= v, and raises KeyError (or
\* returns the default) when there is none or it is a deletion; what
\* get(k, version=v) gave when v was d.version it gives after every later
\* set, delete and update.
C15_HistoryReads ==
    /\ \A k \in VD_KEYS, default \in DEFAULTS, v \in (0 - 1)..(_version + 1) :
          VersionDict_get(data, k, default, v) = ExpectedGet(k, default, v)
    /\ (last_get.thread # "none" /\ frame[last_get.thread].pc = "idle") =>
          /\ VersionDict_get(data, last_get.item, _Deleted, last_get.version).ret
                = last_get.ret
          /\ VersionDict_get(data, last_get.item, _Deleted, last_get.version).exc
                = last_get.exc

\* get returned a value of a key that a later call has written again, with
\* another value.
C15_Witness ==
    /\ last_get.thread = "main"
    /\ last_get.exc = "None"
    /\ frame["main"].pc = "idle"
    /\ \E i \in 1..Len(writes) :
          /\ writes[i].key = last_get.item
          /\ writes[i].version > last_get.version
          /\ writes[i].value # last_get.ret

\* C17: del d[k] of a key that is not live (never set, or deleted) raises
\* KeyError, leaves d.version as it was and appends nothing to data.
C17_DeleteOfDeadKey ==
    \A c \in DoneCalls :
        (oplog[c].op = "del" /\ ~oplog[c].live0) =>
            /\ oplog[c].exc = "KeyError"
            /\ oplog[c].v1 = oplog[c].v0
            /\ WritesOf(c) = <<>>

\* C18: with two threads, every key an update() wrote is recorded under
\* one version, and no other write call records under the version of an
\* update().
C18_UpdateIsSerialised ==
    /\ \A c \in DoneCalls :
          oplog[c].op = "update" =>
              /\ Len(WritesOf(c)) = Len(oplog[c].other)
              /\ \A i \in 1..Len(WritesOf(c)), j \in 1..Len(WritesOf(c)) :
                    WritesOf(c)[i].version = WritesOf(c)[j].version
    /\ \A i \in 1..Len(writes), j \in 1..Len(writes) :
          (/\ writes[i].call # 0
           /\ oplog[writes[i].call].op = "update"
           /\ writes[j].call # writes[i].call) =>
              writes[i].version # writes[j].version

\* C19: d[k] = v on a thread that did not construct d and has not called
\* update() raises nothing and records v under a new version.
C19_SetOnAnyThread ==
    \A c \in DoneCalls :
        (/\ oplog[c].op = "set"
         /\ oplog[c].thread # "main"
         /\ oplog[c].local0 = "unset") =>
            /\ oplog[c].exc = "None"
            /\ Len(WritesOf(c)) = 1
            /\ WritesOf(c)[1].version > oplog[c].v0

=============================================================================
